---------------------------- MODULE Spec2Model ----------------------------
(***************************************************************************)
(* Model of client/client.go of constellix-go-client: the request-signing  *)
(* and dispatch pipeline (Save, GetbyId, DeletebyId, UpdatebyID), the two  *)
(* error normalizers (checkForErrors, checkForErrorsChecks), the token     *)
(* generator and the optional rate limiter.                                *)
(*                                                                         *)
(* Strings that the code takes apart (endpoints, URLs) are sequences of    *)
(* chunks in which every "/" is a chunk of its own, so that strings.Split  *)
(* and fmt.Sprintf are computed and not assumed.  Time is in nanoseconds.  *)
(***************************************************************************)
EXTENDS Integers, Sequences, FiniteSets, TLC

VARIABLES
    clock,        \* time.Now(), nanoseconds since the epoch of the run
    proc,         \* the process: "running", "panicked" or "exited" (log.Fatal)
    clients,      \* the Client instances built so far, by instance id
    clientImpl,   \* the package-level singleton: an instance id, 0 for nil
    configured,   \* history: the options each instance was built with
    callers,      \* each calling goroutine's position in its current call
    dispatches    \* history: every httpclient.Do made, in order

vars == <<clock, proc, clients, clientImpl, configured, callers, dispatches>>

---------------------------------------------------------------------------
(* Bounds of the model *)

\* calls one goroutine makes in a run
MaxCalls == 2
\* calls each of two concurrent goroutines makes in a run
GateCalls == 1
\* the clock stops advancing after this many whole milliseconds
MaxMillis == 1
\* within one millisecond the clock advances in TickNanos steps up to this offset
MaxSubNanos == 500

\* the clock advances within a millisecond in steps of this many nanoseconds
TickNanos == 250

\* int64(time.Millisecond): nanoseconds in a millisecond
Millisecond == 1000000
\* the factor RequestInterval applies to its argument
IntervalFactor == 1000

---------------------------------------------------------------------------
(* Strings as chunk sequences *)

RECURSIVE Split(_)
\* strings.Split(s, "/")
Split(s) ==
    IF s = <<>> THEN <<"">>
    ELSE LET rest == Split(Tail(s))
         IN  IF Head(s) = "/" THEN <<"">> \o rest
             ELSE <<Head(s) \o Head(rest)>> \o Tail(rest)

BaseURL == <<"https:", "/", "/", "api.dns.constellix.com", "/">>

SonarHost == "api.sonar.constellix.com"

\* fmt.Sprintf("%s%s", a, b)
Sprintf2(a, b) == a \o b

\* the endpoints callers pass
Endpoints ==
    { <<"v1", "/", "domains">>,
      <<"https:", "/", "/", "api.sonar.constellix.com", "/", "v1", "/", "x">>,
      <<"v1", "/", "checks", "/", "api.sonar.constellix.com">>,
      <<"v1", "/", "%zz">> }

\* chunks url.Parse rejects (an invalid percent escape)
BadChunks == {"%zz"}

---------------------------------------------------------------------------
(* Values *)

Ops == {"Save", "GetbyId", "DeletebyId", "UpdatebyID"}

NilErr == [isNil |-> TRUE, kind |-> "", msg |-> ""]
Err(k, m) == [isNil |-> FALSE, kind |-> k, msg |-> m]

NilResp == [isNil |-> TRUE, status |-> 0, body |-> "", readOk |-> TRUE]
Resp(st, b, ok) == [isNil |-> FALSE, status |-> st, body |-> b, readOk |-> ok]

NilBody == [isNil |-> TRUE, bytes |-> ""]
NilReq == [isNil |-> TRUE, method |-> "", url |-> <<>>, body |-> NilBody,
           contentType |-> "", token |-> <<>>]

StatusOK == 200


BodyErrorsList == "{\"errors\":[\"bad\",\"thing\"]}"
BodyErrorsEmpty == "{\"errors\":[]}"
BodyErrorsString == "{\"errors\":\"bad\"}"
BodyErrorsMixed == "{\"errors\":[\"bad\",5]}"
BodyNoErrors == "{\"message\":\"nope\"}"
BodyText == "server exploded"

Bodies == {BodyErrorsList, BodyErrorsEmpty, BodyErrorsString, BodyErrorsMixed,
           BodyNoErrors, BodyText}

\* the responses the remote side gives: every body under a status both
\* policies reject (400) and under one only the primary policy rejects (201),
\* and a body stream that fails when read
Responses ==
    {Resp(st, b, TRUE) : st \in {201, 400}, b \in Bodies}
        \cup {Resp(200, BodyNoErrors, TRUE), Resp(202, BodyErrorsList, TRUE),
              Resp(500, BodyText, TRUE)}
        \cup {Resp(st, BodyText, FALSE) : st \in {201, 400}}

\* payloads: a struct that marshals, and a value json.Marshal rejects
Payloads == {"record", "chan"}

---------------------------------------------------------------------------
(* golang.org/x/time/rate, as the client uses it: burst 1, Wait(ctx) for   *)
(* one token with a context that is never cancelled.  A limiter's tokens   *)
(* are counted in nanoseconds of refill: one token is `every` nanoseconds. *)

NilLimiter == [isNil |-> TRUE, every |-> 0, burst |-> 0, tokens |-> 0, last |-> 0]

\* rate.NewLimiter(rate.Every(interval), b): Every(interval <= 0) is rate.Inf,
\* written every = 0.  A new limiter's bucket reads full at its first use.
NewLimiter(interval, b) ==
    [isNil |-> FALSE,
     every |-> IF interval <= 0 THEN 0 ELSE interval,
     burst |-> b,
     tokens |-> IF interval <= 0 THEN 0 ELSE b * interval,
     last |-> 0]

Min(a, b) == IF a <= b THEN a ELSE b

\* (*Limiter).reserveN(now, 1): the time the caller may act and the limiter's
\* next state.  With limit Inf the reservation is immediate and nothing changes.
Reserve(lim, now) ==
    IF lim.every = 0
    THEN [timeToAct |-> now, lim |-> lim]
    ELSE LET elapsed  == IF now > lim.last THEN now - lim.last ELSE 0
             advanced == Min(lim.burst * lim.every, lim.tokens + elapsed)
             tokens   == advanced - lim.every
             wait     == IF tokens < 0 THEN 0 - tokens ELSE 0
         IN  [timeToAct |-> now + wait,
              lim |-> [lim EXCEPT !.tokens = tokens, !.last = now]]

---------------------------------------------------------------------------
(* Construction *)

\* a Client not built yet
NoClient == [isNil |-> TRUE, apiKey |-> "", secretKey |-> "", insecure |-> FALSE,
             proxyUrl |-> "", rateLimiter |-> NilLimiter]

Insecure(insecure) == [opt |-> "Insecure", flag |-> insecure, text |-> "", millis |-> 0]
ProxyUrl(pUrl) == [opt |-> "ProxyUrl", flag |-> FALSE, text |-> pUrl, millis |-> 0]
\* pInterval is a float32 number of seconds; it is given here in milliseconds
\* (0.5 is 500), pInterval = pIntervalMillis / 1000
RequestInterval(pIntervalMillis) ==
    [opt |-> "RequestInterval", flag |-> FALSE, text |-> "", millis |-> pIntervalMillis]

\* time.Duration(pInterval*1000): the float product truncated to an integer
\* count of nanoseconds
IntervalDuration(pIntervalMillis) == (pIntervalMillis * IntervalFactor) \div 1000

\* option(client)
ApplyOption(client, o) ==
    CASE o.opt = "Insecure" -> [client EXCEPT !.insecure = o.flag]
      [] o.opt = "ProxyUrl" -> [client EXCEPT !.proxyUrl = o.text]
      [] o.opt = "RequestInterval" ->
            IF o.millis >= 0
            THEN [client EXCEPT
                    !.rateLimiter = NewLimiter(IntervalDuration(o.millis), 1)]
            ELSE client

RECURSIVE ApplyOptions(_, _)
ApplyOptions(client, options) ==
    IF options = <<>> THEN client
    ELSE ApplyOptions(ApplyOption(client, Head(options)), Tail(options))

\* proxy URLs url.Parse rejects
BadProxyUrls == {"%zz"}

\* an initClient whose configProxy ignores the error of url.Parse
initClientNoParseCheck(apiKey, secretKey, options) ==
    [client |-> ApplyOptions([NoClient EXCEPT !.isNil = FALSE,
                                              !.apiKey = apiKey,
                                              !.secretKey = secretKey], options),
     fatal |-> FALSE]

\* initClient: the instance built, and whether configProxy ended the process
initClient(apiKey, secretKey, options) ==
    LET client == ApplyOptions([NoClient EXCEPT !.isNil = FALSE,
                                                !.apiKey = apiKey,
                                                !.secretKey = secretKey], options)
    IN  [client |-> client,
         fatal |-> client.proxyUrl # "" /\ client.proxyUrl \in BadProxyUrls]

---------------------------------------------------------------------------
(* Token and request construction *)

\* a getToken that hands out the token computed when the process started
getTokenCached(apiKey, secretKey, now) ==
    <<apiKey, <<"hmac-sha1", secretKey, 0>>, 0>>

\* getToken: 'apikey:hmac:time', the three parts kept apart; the HMAC is an
\* uninterpreted function of the secret and the epoch-millisecond text
getToken(apiKey, secretKey, now) ==
    LET epochTime == now \div Millisecond
    IN  <<apiKey, <<"hmac-sha1", secretKey, epochTime>>, epochTime>>

\* http.NewRequest fails when the URL does not parse
UrlParses(url) == \A i \in 1..Len(url) : url[i] \notin BadChunks

\* a makeRequest that attaches the payload whatever the method
makeRequestAlwaysBody(c, method, endpoint, payload, now) ==
    IF ~UrlParses(endpoint)
    THEN [req |-> NilReq, err |-> Err("request", "invalid URL escape")]
    ELSE [req |-> [isNil |-> FALSE,
                   method |-> method,
                   url |-> endpoint,
                   body |-> [isNil |-> FALSE, bytes |-> payload],
                   contentType |-> "application/json",
                   token |-> getToken(c.apiKey, c.secretKey, now)],
          err |-> NilErr]

\* (*Client).makeRequest
makeRequest(c, method, endpoint, payload, now) ==
    IF ~UrlParses(endpoint)
    THEN [req |-> NilReq, err |-> Err("request", "invalid URL escape")]
    ELSE [req |-> [isNil |-> FALSE,
                   method |-> method,
                   url |-> endpoint,
                   body |-> IF method = "POST" \/ method = "PUT"
                            THEN [isNil |-> FALSE, bytes |-> payload]
                            ELSE NilBody,
                   contentType |-> "application/json",
                   token |-> getToken(c.apiKey, c.secretKey, now)],
          err |-> NilErr]

\* json.Marshal(obj)
JsonMarshal(obj) ==
    IF obj = "record"
    THEN [bytes |-> "{\"name\":\"example.com\"}", err |-> NilErr]
    ELSE [bytes |-> "", err |-> Err("marshal", "json: unsupported type: chan int")]

\* the first lines of the four operations: the request URL and the flag
ResolveURL(endpoint) ==
    LET urlArr == Split(endpoint)
    IN  IF Len(urlArr) > 2 /\ urlArr[3] = SonarHost
        THEN [url |-> endpoint, flag |-> TRUE]
        ELSE [url |-> Sprintf2(BaseURL, endpoint), flag |-> FALSE]

---------------------------------------------------------------------------
(* Error normalizers *)

\* Go values held in an interface{}
GoNil == [type |-> "nil", str |-> "", elems |-> <<>>]
GoString(s) == [type |-> "string", str |-> s, elems |-> <<>>]
GoNumber == [type |-> "float64", str |-> "", elems |-> <<>>]
GoSlice(elems) == [type |-> "slice", str |-> "", elems |-> elems]

\* json.Unmarshal(body, &data) into a nil map[string]interface{}, its error
\* dropped: data stays nil when the body is no JSON object; `fields` holds
\* the keys decoded, `errors` the value of data["errors"] (nil when absent)
JsonUnmarshal(bodyString) ==
    CASE bodyString = BodyErrorsList ->
            [isNil |-> FALSE, fields |-> {"errors"},
             errors |-> GoSlice(<<GoString("bad"), GoString("thing")>>)]
      [] bodyString = BodyErrorsEmpty ->
            [isNil |-> FALSE, fields |-> {"errors"}, errors |-> GoSlice(<<>>)]
      [] bodyString = BodyErrorsString ->
            [isNil |-> FALSE, fields |-> {"errors"}, errors |-> GoString("bad")]
      [] bodyString = BodyErrorsMixed ->
            [isNil |-> FALSE, fields |-> {"errors"},
             errors |-> GoSlice(<<GoString("bad"), GoNumber>>)]
      [] bodyString = BodyNoErrors ->
            [isNil |-> FALSE, fields |-> {"message"}, errors |-> GoNil]
      [] OTHER ->
            [isNil |-> TRUE, fields |-> {}, errors |-> GoNil]

\* what a normalizer does: returns an error value (nil or not), panics, or
\* ends the process through log.Fatal
Return(err) == [kind |-> "return", err |-> err, fault |-> ""]
Panic(why) == [kind |-> "panic", err |-> NilErr, fault |-> why]
Fatal(why) == [kind |-> "fatal", err |-> NilErr, fault |-> why]

RECURSIVE AllStrings(_)
\* every val.(string) of the loop succeeds
AllStrings(elems) ==
    elems = <<>> \/ (Head(elems).type = "string" /\ AllStrings(Tail(elems)))

RECURSIVE ConcatErrsReversed(_)
\* a loop that prepends: allErrs = val.(string) + allErrs
ConcatErrsReversed(elems) ==
    IF elems = <<>> THEN "" ELSE ConcatErrsReversed(Tail(elems)) \o Head(elems).str

RECURSIVE ConcatErrs(_)
\* allErrs = allErrs + val.(string), over the list in order
ConcatErrs(elems) ==
    IF elems = <<>> THEN "" ELSE Head(elems).str \o ConcatErrs(Tail(elems))

\* checkForErrors: the primary API's policy
checkForErrors(resp) ==
    IF resp.status # StatusOK
    THEN IF ~resp.readOk
         THEN Fatal("ReadAll")
         ELSE LET data   == JsonUnmarshal(resp.body)
                  errors == data.errors
              IN  IF errors.type # "slice"
                  THEN Panic("errors is not []interface{}")
                  ELSE IF ~AllStrings(errors.elems)
                       THEN Panic("val is not string")
                       ELSE Return(Err("remote", ConcatErrs(errors.elems)))
    ELSE Return(NilErr)

\* a checks policy that forgets 202
checkForErrorsChecksNo202(resp) ==
    IF resp.status # StatusOK /\ resp.status # 201
    THEN IF ~resp.readOk
         THEN Fatal("ReadAll")
         ELSE Return(Err("remote", resp.body))
    ELSE Return(NilErr)

\* checkForErrorsChecks: the sonar (checks) API's policy
checkForErrorsChecks(resp) ==
    IF resp.status # StatusOK /\ resp.status # 201 /\ resp.status # 202
    THEN IF ~resp.readOk
         THEN Fatal("ReadAll")
         ELSE Return(Err("remote", resp.body))
    ELSE Return(NilErr)

---------------------------------------------------------------------------
(* State *)

\* instance ids; the instance a goroutine calls through is callers[c].client
ClientIds == 1..2

IdleCaller ==
    [pc |-> "idle", client |-> 0, op |-> "", endpoint |-> <<>>, obj |-> "none",
     flag |-> FALSE,
     req |-> NilReq, gate |-> "", blocked |-> FALSE, timeToAct |-> 0,
     cancelled |-> FALSE,
     got |-> NilResp,
     resp |-> NilResp, err |-> NilErr, fault |-> "", sent |-> 0, calls |-> 0]

\* the option lists a program passes to GetClient
OptionLists ==
    { <<>>,
      <<RequestInterval(0 - 1000)>>,
      <<RequestInterval(0)>>,
      <<RequestInterval(500)>> }

\* the state after one GetClient("key", "secret", options...) that returned
InitWith(callerSet) ==
    /\ clock = 0
    /\ proc = "running"
    /\ \E options \in OptionLists :
          /\ clients = [k \in ClientIds |->
                          IF k = 1 THEN initClient("key", "secret", options).client
                          ELSE NoClient]
          /\ configured = [k \in ClientIds |-> IF k = 1 THEN options ELSE <<>>]
    /\ clientImpl = 1
    /\ callers = [c \in callerSet |-> IdleCaller]
    /\ dispatches = <<>>

Live == {k \in ClientIds : ~clients[k].isNil}

\* the state of a process that has not called GetClient yet
InitNoClient(callerSet) ==
    /\ clock = 0
    /\ proc = "running"
    /\ clients = [k \in ClientIds |-> NoClient]
    /\ configured = [k \in ClientIds |-> <<>>]
    /\ clientImpl = 0
    /\ callers = [c \in callerSet |-> IdleCaller]
    /\ dispatches = <<>>

\* a GetClient that keeps one instance and configures it again
GetClientInPlace(apiKey, secretKey, options) ==
    /\ proc = "running"
    /\ LET k == IF clientImpl = 0 THEN 1 ELSE clientImpl
           r == initClient(apiKey, secretKey, options)
       IN  /\ configured' = [configured EXCEPT ![k] = options]
           /\ IF r.fatal
              THEN /\ proc' = "exited"
                   /\ UNCHANGED <<clients, clientImpl>>
              ELSE /\ proc' = proc
                   /\ clients' = [clients EXCEPT ![k] = r.client]
                   /\ clientImpl' = k
    /\ UNCHANGED <<clock, callers, dispatches>>

\* GetClient: clientImpl = initClient(...).  k names the instance the call
\* allocates; log.Fatal in configProxy ends the process before the assignment.
GetClient(apiKey, secretKey, options) ==
    /\ proc = "running"
    /\ Cardinality(Live) + 1 \in ClientIds
    /\ LET k == Cardinality(Live) + 1
           r == initClient(apiKey, secretKey, options)
       IN  /\ configured' = [configured EXCEPT ![k] = options]
           /\ IF r.fatal
              THEN /\ proc' = "exited"
                   /\ UNCHANGED <<clients, clientImpl>>
              ELSE /\ proc' = proc
                   /\ clients' = [clients EXCEPT ![k] = r.client]
                   /\ clientImpl' = k
    /\ UNCHANGED <<clock, callers, dispatches>>

---------------------------------------------------------------------------
(* The steps of an operation.  A call is made of three steps because it can *)
(* block in the middle: build the request, pass the gate, dispatch and      *)
(* normalize.                                                               *)

\* process termination by log.Fatal (os.Exit) or by an unrecovered panic
Stop(c, how, why) ==
    /\ proc' = (IF how = "panic" THEN "panicked" ELSE "exited")
    /\ callers' = [callers EXCEPT ![c].pc = proc', ![c].fault = why]

\* json.Marshal, URL resolution and makeRequest of one operation
Build(c, op, method, marshals, in) ==
    /\ proc = "running"
    /\ callers[c].pc \in {"idle", "returned"}
    /\ callers[c].calls < in.calls
    /\ \E k \in Live, endpoint \in in.endpoints,
          obj \in (IF marshals THEN in.payloads ELSE {"none"}) :
          LET jsonPayload == IF marshals THEN JsonMarshal(obj)
                             ELSE [bytes |-> "", err |-> NilErr]
              r    == ResolveURL(endpoint)
              made == makeRequest(clients[k], method, r.url, jsonPayload.bytes, clock)
              call == [IdleCaller EXCEPT !.client = k, !.op = op,
                                         !.endpoint = endpoint, !.obj = obj,
                                         !.calls = callers[c].calls + 1]
          IN  IF ~jsonPayload.err.isNil
              THEN /\ proc' = "exited"
                   /\ callers' = [callers EXCEPT ![c] =
                                    [call EXCEPT !.pc = "exited", !.fault = "Marshal"]]
              ELSE /\ proc' = proc
                   /\ callers' = [callers EXCEPT ![c] =
                        IF ~made.err.isNil
                        THEN [call EXCEPT !.pc = "returned", !.err = made.err]
                        ELSE [call EXCEPT !.pc = "built", !.req = made.req,
                                          !.flag = (op # "DeletebyId" /\ r.flag)]]
    /\ UNCHANGED <<clock, clients, clientImpl, configured, dispatches>>

\* a Wait that backs off: every reservation doubles the limiter's interval
AcquireBackoff(c) ==
    LET k == callers[c].client
        r == Reserve(clients[k].rateLimiter, clock)
    IN  /\ clients' = [clients EXCEPT
                         ![k].rateLimiter = [r.lim EXCEPT !.every = 2 * @]]
        /\ callers' = [callers EXCEPT
                         ![c].timeToAct = r.timeToAct,
                         ![c].blocked = r.timeToAct > clock,
                         ![c].gate = IF r.timeToAct <= clock THEN "acquired" ELSE "pending",
                         ![c].pc = IF r.timeToAct <= clock THEN "admitted" ELSE "waiting"]
        /\ proc' = proc

\* c.rateLimiter.Wait(ctx) up to the point where it blocks or returns
Acquire(c) ==
    LET k == callers[c].client
        r == Reserve(clients[k].rateLimiter, clock)
    IN  /\ clients' = [clients EXCEPT ![k].rateLimiter = r.lim]
        /\ callers' = [callers EXCEPT
                         ![c].timeToAct = r.timeToAct,
                         ![c].blocked = r.timeToAct > clock,
                         ![c].gate = IF r.timeToAct <= clock THEN "acquired" ELSE "pending",
                         ![c].pc = IF r.timeToAct <= clock THEN "admitted" ELSE "waiting"]
        /\ proc' = proc

\* a gate step whose nil check is the wrong way round
GuardedWaitInverted(c, op) ==
    /\ proc = "running"
    /\ callers[c].pc = "built"
    /\ callers[c].op = op
    /\ IF clients[callers[c].client].rateLimiter.isNil
       THEN Acquire(c)
       ELSE /\ callers' = [callers EXCEPT ![c].pc = "admitted", ![c].gate = "absent"]
            /\ UNCHANGED <<clients, proc>>
    /\ UNCHANGED <<clock, clientImpl, configured, dispatches>>

\* the gate step of GetbyId, DeletebyId and UpdatebyID: Wait only when the
\* limiter is there
GuardedWait(c, op) ==
    /\ proc = "running"
    /\ callers[c].pc = "built"
    /\ callers[c].op = op
    /\ IF ~clients[callers[c].client].rateLimiter.isNil
       THEN Acquire(c)
       ELSE /\ callers' = [callers EXCEPT ![c].pc = "admitted", ![c].gate = "absent"]
            /\ UNCHANGED <<clients, proc>>
    /\ UNCHANGED <<clock, clientImpl, configured, dispatches>>

\* the gate step of Save: Wait is called on the limiter whatever it is, and a
\* nil *rate.Limiter is dereferenced
UnguardedWait(c, op) ==
    /\ proc = "running"
    /\ callers[c].pc = "built"
    /\ callers[c].op = op
    /\ IF ~clients[callers[c].client].rateLimiter.isNil
       THEN Acquire(c)
       ELSE /\ Stop(c, "panic", "nil rateLimiter")
            /\ UNCHANGED clients
    /\ UNCHANGED <<clock, clientImpl, configured, dispatches>>

\* a Wait after which the request is signed again, at admission time
WaitDoneResign(c) ==
    /\ proc = "running"
    /\ callers[c].pc = "waiting"
    /\ clock >= callers[c].timeToAct
    /\ callers' = [callers EXCEPT
                     ![c].pc = "admitted", ![c].gate = "acquired",
                     ![c].req.token = getToken(clients[callers[c].client].apiKey,
                                               clients[callers[c].client].secretKey,
                                               clock)]
    /\ UNCHANGED <<clock, proc, clients, clientImpl, configured, dispatches>>

\* Wait returns nil once the time reserved has come
WaitDone(c) ==
    /\ proc = "running"
    /\ callers[c].pc = "waiting"
    /\ clock >= callers[c].timeToAct
    /\ callers' = [callers EXCEPT ![c].pc = "admitted", ![c].gate = "acquired"]
    /\ UNCHANGED <<clock, proc, clients, clientImpl, configured, dispatches>>

\* The caller of a blocked operation cancels it before the reserved time.
\* The operations take no context and Wait is given context.Background(),
\* whose Done channel never closes: the wait goes on as before.
Cancel(c) ==
    /\ proc = "running"
    /\ callers[c].pc = "waiting"
    /\ clock < callers[c].timeToAct
    /\ ~callers[c].cancelled
    /\ callers' = [callers EXCEPT ![c].cancelled = TRUE]
    /\ UNCHANGED <<clock, proc, clients, clientImpl, configured, dispatches>>

\* the normalizer an operation applies to its response
Normalize(op, flag, resp) ==
    IF op = "DeletebyId" THEN checkForErrorsChecks(resp)
    ELSE IF flag = FALSE THEN checkForErrors(resp)
    ELSE checkForErrorsChecks(resp)

\* what the operation hands back with a response in hand
Returned(op, resp) == IF op = "DeletebyId" THEN NilResp ELSE resp

\* a transport failure after which the operation dispatches again
OnTransportErrorRetry(c) ==
    callers' = [callers EXCEPT
                  ![c].sent = @ + 1,
                  ![c].pc = IF callers[c].sent = 0 THEN "admitted" ELSE "returned",
                  ![c].err = IF callers[c].sent = 0 THEN NilErr
                             ELSE Err("transport", "connection refused")]

\* err != nil from httpclient.Do: the operation returns it with no response
OnTransportError(c) ==
    callers' = [callers EXCEPT
                  ![c].pc = "returned", ![c].sent = @ + 1,
                  ![c].err = Err("transport", "connection refused")]

\* c.httpclient.Do(req) and everything after it
Do(c, op, in) ==
    /\ proc = "running"
    /\ callers[c].pc = "admitted"
    /\ callers[c].op = op
    /\ dispatches' = Append(dispatches,
            [caller |-> c, call |-> callers[c].calls, client |-> callers[c].client,
             at |-> clock, gate |-> callers[c].gate,
             blocked |-> callers[c].blocked,
             timeToAct |-> callers[c].timeToAct,
             token |-> callers[c].req.token])
    /\ \/ \* the transport fails: no response
          /\ OnTransportError(c)
          /\ proc' = proc
       \/ \E resp \in in.responses :
             LET out == Normalize(op, callers[c].flag, resp)
             IN  IF out.kind = "return"
                 THEN /\ callers' = [callers EXCEPT
                            ![c].pc = "returned", ![c].sent = @ + 1,
                            ![c].got = resp,
                            ![c].resp = Returned(op, resp),
                            ![c].err = out.err]
                      /\ proc' = proc
                 ELSE /\ proc' = (IF out.kind = "panic" THEN "panicked" ELSE "exited")
                      /\ callers' = [callers EXCEPT
                            ![c].pc = proc', ![c].sent = @ + 1,
                            ![c].got = resp, ![c].fault = out.fault]
    /\ UNCHANGED <<clock, clients, clientImpl, configured>>

---------------------------------------------------------------------------
(* The four operations.  `in` bounds what the callers of a specification   *)
(* pass and what the remote side answers.                                 *)

Save(c, in) ==
    \/ Build(c, "Save", "POST", TRUE, in)
    \/ UnguardedWait(c, "Save")
    \/ Do(c, "Save", in)

GetbyId(c, in) ==
    \/ Build(c, "GetbyId", "GET", FALSE, in)
    \/ GuardedWait(c, "GetbyId")
    \/ Do(c, "GetbyId", in)

DeletebyId(c, in) ==
    \/ Build(c, "DeletebyId", "DELETE", FALSE, in)
    \/ GuardedWait(c, "DeletebyId")
    \/ Do(c, "DeletebyId", in)

UpdatebyID(c, in) ==
    \/ Build(c, "UpdatebyID", "PUT", TRUE, in)
    \/ GuardedWait(c, "UpdatebyID")
    \/ Do(c, "UpdatebyID", in)

\* time passes: a step within the millisecond, or on to the next millisecond
Tick ==
    /\ proc = "running"
    /\ \/ /\ (clock % Millisecond) + TickNanos <= MaxSubNanos
          /\ clock' = clock + TickNanos
       \/ /\ clock \div Millisecond < MaxMillis
          /\ clock' = ((clock \div Millisecond) + 1) * Millisecond
    /\ UNCHANGED <<proc, clients, clientImpl, configured, callers, dispatches>>

---------------------------------------------------------------------------
(* One goroutine calling through one instance, with every input *)

SeqCallers == {1}

SeqInputs ==
    [endpoints |-> Endpoints, responses |-> Responses, payloads |-> Payloads,
     calls |-> MaxCalls]

Init == InitWith(SeqCallers)

Next ==
    \/ \E c \in SeqCallers :
          \/ Save(c, SeqInputs)
          \/ GetbyId(c, SeqInputs)
          \/ DeletebyId(c, SeqInputs)
          \/ UpdatebyID(c, SeqInputs)
          \/ WaitDone(c)
    \/ Tick

Spec == Init /\ [][Next]_vars

---------------------------------------------------------------------------
(* Two goroutines calling through one instance, one call each, with one   *)
(* endpoint and one response of each outcome                              *)

GateCallers == {1, 2}

GateInputs ==
    [endpoints |-> {<<"v1", "/", "domains">>},
     responses |-> {Resp(200, BodyNoErrors, TRUE), Resp(500, BodyText, TRUE)},
     payloads |-> {"record"},
     calls |-> GateCalls]

InitGate == InitWith(GateCallers)

NextGate ==
    \/ \E c \in GateCallers :
          \/ Save(c, GateInputs)
          \/ GetbyId(c, GateInputs)
          \/ DeletebyId(c, GateInputs)
          \/ UpdatebyID(c, GateInputs)
          \/ WaitDone(c)
          \/ Cancel(c)
    \/ Tick

SpecGate == InitGate /\ [][NextGate]_vars

---------------------------------------------------------------------------
(* A process that constructs up to two instances and calls through them:   *)
(* one goroutine, one endpoint, one response of each outcome               *)

Credentials == {<<"key", "secret">>, <<"key2", "secret2">>}

\* option lists with a proxy address, one of them not parseable
CtorOptionLists ==
    { <<>>,
      <<RequestInterval(500)>>,
      <<Insecure(TRUE), ProxyUrl("http://proxy:8080")>>,
      <<ProxyUrl("%zz")>>,
      <<RequestInterval(500), ProxyUrl("%zz")>> }

CtorCallers == {1}

CtorInputs ==
    [endpoints |-> {<<"v1", "/", "domains">>},
     responses |-> {Resp(200, BodyNoErrors, TRUE), Resp(500, BodyText, TRUE)},
     payloads |-> {"record"},
     calls |-> MaxCalls]

InitCtor == InitNoClient(CtorCallers)

NextCtor ==
    \/ \E cred \in Credentials, options \in CtorOptionLists :
          GetClient(cred[1], cred[2], options)
    \/ \E c \in CtorCallers :
          \/ Save(c, CtorInputs)
          \/ GetbyId(c, CtorInputs)
          \/ DeletebyId(c, CtorInputs)
          \/ UpdatebyID(c, CtorInputs)
          \/ WaitDone(c)
    \/ Tick

SpecCtor == InitCtor /\ [][NextCtor]_vars

---------------------------------------------------------------------------
(* Properties *)

\* the goroutines that have made a call
Called == {c \in DOMAIN callers : callers[c].pc # "idle"}

\* the goroutines whose Do yielded a response
Answered == {c \in Called : ~callers[c].got.isNil}

\* the policy an endpoint's classification selects
PolicyOf(endpoint) == IF ResolveURL(endpoint).flag THEN "secondary" ELSE "primary"

\* the policy the operation applied to the response it got
Applied(c) ==
    IF callers[c].op = "DeletebyId" \/ callers[c].flag THEN "secondary" ELSE "primary"

\* the RequestInterval an instance was configured with, in milliseconds;
\* -1 when none was given
RECURSIVE IntervalOf(_)
IntervalOf(options) ==
    IF options = <<>> THEN 0 - 1
    ELSE IF Head(options).opt = "RequestInterval" /\ IntervalOf(Tail(options)) = 0 - 1
         THEN Head(options).millis
         ELSE IntervalOf(Tail(options))

\* d seconds, d given in milliseconds, as nanoseconds
SecondsAsNanos(millis) == millis * Millisecond

\* the host component of a URL or URL reference (RFC 3986: an optional
\* scheme, then "//" and the authority); "" when it has none
Schemes == {"https:", "http:"}
HostOf(s) ==
    LET r == IF s # <<>> /\ Head(s) \in Schemes THEN Tail(s) ELSE s
    IN  IF Len(r) >= 3 /\ r[1] = "/" /\ r[2] = "/" /\ r[3] # "/" THEN r[3] ELSE ""

\* C1: every operation that applies the primary policy to a response with a
\* status other than 200 returns a non-nil error, whatever the (readable)
\* body is, and does not crash or end the process.
C1_PrimaryFailureReturnsError ==
    \A c \in Answered :
        (Applied(c) = "primary" /\ callers[c].got.status # 200
            /\ callers[c].got.readOk)
        => (callers[c].pc = "returned" /\ ~callers[c].err.isNil)

\* C2: in each of the four operations the response is judged by the policy of
\* the endpoint's classification: nil error iff the status is 200 on a primary
\* endpoint, iff it is 200, 201 or 202 on a secondary endpoint.
C2_PolicyMatchesClassification ==
    \A c \in Answered :
        callers[c].pc = "returned"
        => (callers[c].err.isNil <=>
                callers[c].got.status \in
                    (IF PolicyOf(callers[c].endpoint) = "secondary"
                     THEN {200, 201, 202} ELSE {200}))

\* C3: with no rate gate (no interval option, or a negative interval) or with
\* interval 0, every operation passes the gate at once: it neither blocks nor
\* crashes there.
C3_DisabledGateIsNoOp ==
    \A c \in Called :
        IntervalOf(configured[callers[c].client]) <= 0
        => (callers[c].pc # "waiting" /\ callers[c].fault # "nil rateLimiter")

\* C4: when the instance has a rate limiter, every dispatch was made after
\* the caller's Wait on it had returned: the gate was acquired and the time
\* reserved had come.
C4_GateBeforeDispatch ==
    \A i \in DOMAIN dispatches :
        ~clients[dispatches[i].client].rateLimiter.isNil
        => (dispatches[i].gate = "acquired"
            /\ dispatches[i].timeToAct <= dispatches[i].at)

\* C4 witness: a dispatch whose caller was blocked in Wait until the time the
\* limiter reserved for it
C4_Witness ==
    \E i \in DOMAIN dispatches :
        /\ clients[dispatches[i].client].rateLimiter.every > 0
        /\ dispatches[i].blocked
        /\ dispatches[i].gate = "acquired"
        /\ dispatches[i].at >= dispatches[i].timeToAct

\* C5: with a request interval of d seconds, d > 0, any two dispatches made
\* one after the other through one instance are at least d seconds apart.
C5_DispatchesSecondsApart ==
    \A i, j \in DOMAIN dispatches :
        (j = i + 1 /\ dispatches[i].client = dispatches[j].client
            /\ IntervalOf(configured[dispatches[i].client]) > 0)
        => dispatches[j].at - dispatches[i].at
              >= SecondsAsNanos(IntervalOf(configured[dispatches[i].client]))

\* C6: the dispatches of concurrent callers of one instance are admitted one
\* at a time, no two of them closer together than the configured interval.
C6_ConcurrentDispatchesApart ==
    \A i, j \in DOMAIN dispatches :
        (i < j /\ dispatches[i].caller # dispatches[j].caller
            /\ dispatches[i].client = dispatches[j].client
            /\ IntervalOf(configured[dispatches[i].client]) > 0)
        => dispatches[j].at - dispatches[i].at
              >= SecondsAsNanos(IntervalOf(configured[dispatches[i].client]))

\* C7: in every operation the endpoint is used verbatim as the request URL
\* exactly when its host component is api.sonar.constellix.com, and is
\* otherwise appended to the base URL.
C7_ResolutionByHost ==
    \A c \in Called :
        ~callers[c].req.isNil
        => callers[c].req.url =
              (IF HostOf(callers[c].endpoint) = SonarHost
               THEN callers[c].endpoint
               ELSE BaseURL \o callers[c].endpoint)

\* C8: under the primary policy a response is a success (the operation
\* returns a nil error) iff its status is 200; a non-200 response whose body
\* holds an `errors` list of strings gives the error message made of those
\* strings in list order with nothing between them.
C8_PrimaryPolicy ==
    \A c \in Answered :
        Applied(c) = "primary"
        => /\ (callers[c].pc = "returned" /\ callers[c].err.isNil)
                <=> callers[c].got.status = 200
           /\ (callers[c].got.status # 200 /\ callers[c].got.body = BodyErrorsList)
                => (callers[c].pc = "returned" /\ callers[c].err.msg = "badthing")
           /\ (callers[c].got.status # 200 /\ callers[c].got.body = BodyErrorsEmpty)
                => (callers[c].pc = "returned" /\ ~callers[c].err.isNil
                    /\ callers[c].err.msg = "")

\* C8 witness: status 400 with body {"errors":["bad","thing"]} returned as
\* the error "badthing"
C8_Witness ==
    \E c \in Answered :
        /\ Applied(c) = "primary"
        /\ callers[c].got.status = 400
        /\ callers[c].got.body = BodyErrorsList
        /\ callers[c].pc = "returned"
        /\ callers[c].err.msg = "badthing"

\* C9: under the secondary policy a response is a success (nil error) iff its
\* status is 200, 201 or 202; for every other status the error message is the
\* raw body text, whatever it is.
C9_SecondaryPolicy ==
    \A c \in Answered :
        Applied(c) = "secondary"
        => /\ (callers[c].pc = "returned" /\ callers[c].err.isNil)
                <=> callers[c].got.status \in {200, 201, 202}
           /\ (callers[c].got.status \notin {200, 201, 202} /\ callers[c].got.readOk)
                => (callers[c].pc = "returned" /\ ~callers[c].err.isNil
                    /\ callers[c].err.msg = callers[c].got.body)

\* C9 witness: status 500 with body "server exploded" returned as exactly that
\* message
C9_Witness ==
    \E c \in Answered :
        /\ Applied(c) = "secondary"
        /\ callers[c].got.status = 500
        /\ callers[c].pc = "returned"
        /\ callers[c].err.msg = "server exploded"

\* the dispatches made for call n of goroutine c
DispatchesOf(c, n) ==
    {i \in DOMAIN dispatches : dispatches[i].caller = c /\ dispatches[i].call = n}

C11_MarshalErrorReturned ==
    \A c \in Called :
        (callers[c].op \in {"Save", "UpdatebyID"} /\ callers[c].obj = "chan")
        => /\ proc = "running"
           /\ callers[c].pc = "returned"
           /\ callers[c].err.kind = "marshal"
           /\ callers[c].gate = ""
           /\ callers[c].sent = 0

\* the HTTP method of each verb
MethodOf(op) ==
    CASE op = "Save" -> "POST"
      [] op = "GetbyId" -> "GET"
      [] op = "UpdatebyID" -> "PUT"
      [] op = "DeletebyId" -> "DELETE"

\* C12: every request built uses the method of its verb, carries a body iff
\* the method is POST or PUT, and carries the Content-Type: application/json
\* header and an x-cns-security-token header.
C12_RequestShape ==
    \A c \in Called :
        ~callers[c].req.isNil
        => /\ callers[c].req.method = MethodOf(callers[c].op)
           /\ ~callers[c].req.body.isNil <=> callers[c].req.method \in {"POST", "PUT"}
           /\ callers[c].req.contentType = "application/json"
           /\ callers[c].req.token # <<>>

\* C12 witness: a DELETE request built without a body, in a goroutine's
\* second call
C12_Witness ==
    \E c \in Called :
        /\ callers[c].pc = "built"
        /\ callers[c].req.method = "DELETE"
        /\ callers[c].req.body.isNil
        /\ callers[c].calls = 2

\* C13: the token of every request is generated when that request is built:
\* apiKey, signature and timestamp, the timestamp being the clock in epoch
\* milliseconds at that moment and the signature a function of the secret
\* and that timestamp; it differs from the token of every request dispatched
\* before with a timestamp of another millisecond.
C13_FreshToken ==
    [][\A c \in DOMAIN callers :
          (callers'[c].calls # callers[c].calls /\ ~callers'[c].req.isNil)
          => LET k     == clients[callers'[c].client]
                 ms    == clock \div Millisecond
                 token == callers'[c].req.token
             IN  /\ token = <<k.apiKey, <<"hmac-sha1", k.secretKey, ms>>, ms>>
                 /\ \A i \in DOMAIN dispatches :
                        dispatches[i].token[3] # ms => dispatches[i].token # token
      ]_vars

\* C13 witness: two requests dispatched with the same credentials, built in
\* different milliseconds, with different tokens
C13_Witness ==
    \E i, j \in DOMAIN dispatches :
        /\ i < j
        /\ dispatches[i].client = dispatches[j].client
        /\ dispatches[i].token[1] = dispatches[j].token[1]
        /\ dispatches[i].token[3] < dispatches[j].token[3]
        /\ dispatches[i].token # dispatches[j].token

\* the proxy address an option list leaves on the instance
ProxyOf(options) == ApplyOptions(NoClient, options).proxyUrl

\* C14: a construction whose proxy URL does not parse ends the process and
\* yields no client: no instance holds such an address, the singleton is not
\* that instance, no call goes through it and nothing is dispatched by it.
C14_BadProxyFatalAtConstruction ==
    /\ \A k \in Live : clients[k].proxyUrl \notin BadProxyUrls
    /\ \A k \in ClientIds :
          ProxyOf(configured[k]) \in BadProxyUrls
          => /\ proc = "exited"
             /\ clients[k].isNil
             /\ clientImpl # k
             /\ \A c \in Called : callers[c].client # k
             /\ \A i \in DOMAIN dispatches : dispatches[i].client # k

\* C14 witness: a second construction, with a proxy URL that does not parse,
\* ended the process after the first instance had dispatched
C14_Witness ==
    /\ proc = "exited"
    /\ ProxyOf(configured[2]) \in BadProxyUrls
    /\ clients[2].isNil
    /\ clientImpl = 1
    /\ dispatches # <<>>

\* C15: no step changes the key, secret, insecure flag or proxy address of
\* an instance that exists, nor the presence, interval and burst of its
\* limiter; every instance keeps the configuration its construction gave it.
C15_ConfigImmutable ==
    [][\A k \in Live :
          /\ clients'[k].isNil = FALSE
          /\ clients'[k].apiKey = clients[k].apiKey
          /\ clients'[k].secretKey = clients[k].secretKey
          /\ clients'[k].insecure = clients[k].insecure
          /\ clients'[k].proxyUrl = clients[k].proxyUrl
          /\ clients'[k].rateLimiter.isNil = clients[k].rateLimiter.isNil
          /\ clients'[k].rateLimiter.every = clients[k].rateLimiter.every
          /\ clients'[k].rateLimiter.burst = clients[k].rateLimiter.burst
          /\ configured'[k] = configured[k]
      ]_vars

\* C15 witness: an instance with a limiter went through a failing call that
\* used the limiter, and still has the interval it was built with
C15_Witness ==
    \E c \in Called :
        LET k == callers[c].client
        IN  /\ callers[c].pc = "returned"
            /\ ~callers[c].err.isNil
            /\ callers[c].calls = 2
            /\ clients[k].rateLimiter.last > 0
            /\ clients[k].rateLimiter.every > 0
            /\ clients[k].rateLimiter.every = IntervalDuration(IntervalOf(configured[k]))

\* the statuses a policy takes for success
SuccessOf(policy) == IF policy = "secondary" THEN {200, 201, 202} ELSE {200}

\* C16: a Save, GetbyId or UpdatebyID whose dispatch yielded a response
\* returns that response, with an error that is non-nil exactly when the
\* policy applied classifies the status as a failure; one that ended with no
\* response returned a nil response and a non-nil error.  (A payload that
\* does not serialize is left out: it fails before request construction.)
C16_ResponseAndErrorReturned ==
    \A c \in Called :
        (callers[c].op \in {"Save", "GetbyId", "UpdatebyID"} /\ callers[c].fault # "Marshal")
        => /\ c \in Answered
                => /\ callers[c].pc = "returned"
                   /\ callers[c].resp = callers[c].got
                   /\ callers[c].err.isNil
                        <=> callers[c].got.status \in SuccessOf(Applied(c))
           /\ (c \notin Answered /\ callers[c].pc \in {"returned", "panicked", "exited"})
                => /\ callers[c].pc = "returned"
                   /\ callers[c].resp.isNil
                   /\ ~callers[c].err.isNil

\* C17: a call whose blocked wait the caller cancelled before the reserved
\* time does not dispatch: its wait ends with the cancellation error and the
\* operation returns that error.
C17_CancelAbortsWait ==
    \A c \in Called :
        callers[c].cancelled
        => /\ callers[c].sent = 0
           /\ callers[c].pc \in {"waiting", "returned"}
           /\ callers[c].pc = "returned" => callers[c].err.kind = "cancelled"

\* C18: a caller that blocked at the gate is admitted and its operation
\* returns; it is never left, at the gate or after it, in a process that has
\* stopped, where it can no longer be admitted or return.
C18_BlockedCallerReturns ==
    \A c \in Called :
        (callers[c].blocked /\ proc # "running") => callers[c].pc = "returned"

\* C19: the token is made when the request is built and is not made again:
\* the request of a call stays as built through the gate and the dispatch, it
\* is already there when the gate is entered, and the token's timestamp is
\* never later than the admission time or the dispatch time, so the time spent
\* blocked is part of the token's age at dispatch.
C19_TokenBeforeGate ==
    /\ [](\A i \in DOMAIN dispatches :
            /\ dispatches[i].token # <<>>
            /\ dispatches[i].token[3] * Millisecond <= dispatches[i].at
            /\ dispatches[i].gate = "acquired"
                 => /\ dispatches[i].token[3] * Millisecond <= dispatches[i].timeToAct
                    /\ dispatches[i].timeToAct <= dispatches[i].at)
    /\ [][\A c \in DOMAIN callers :
            /\ callers'[c].calls = callers[c].calls
                 => callers'[c].req = callers[c].req
            /\ callers'[c].pc \in {"waiting", "admitted"}
                 => /\ ~callers[c].req.isNil
                    /\ callers[c].req.token[3] * Millisecond <= clock
            /\ Len(dispatches') > Len(dispatches)
                 => (dispatches'[Len(dispatches')].caller = c
                       => dispatches'[Len(dispatches')].token = callers[c].req.token)
       ]_vars

\* C19 witness: a request that was blocked at the gate went out in a later
\* millisecond than the one its token carries
C19_Witness ==
    \E i \in DOMAIN dispatches :
        /\ dispatches[i].blocked
        /\ dispatches[i].gate = "acquired"
        /\ dispatches[i].token[3] = 0
        /\ dispatches[i].at >= Millisecond

=============================================================================
